---- MODULE Spec2Model ----
(***************************************************************************)
(* A model of phlooph, a static-site generator: src/phlooph/__init__.py    *)
(* (the pipeline render -> paginate -> tag), src/phlooph/models.py (the    *)
(* Source/Post model) and src/phlooph/config.py.                           *)
(*                                                                         *)
(* Strings are sequences of one-character strings, so that fnmatch,        *)
(* Path.match, str.find and str.lower/replace are computed character by    *)
(* character. A path is the sequence of its parts (pathlib's Path.parts).  *)
(***************************************************************************)
EXTENDS Integers, Sequences, FiniteSets, TLC

\* ------------------------------------------------------------------ bounds

\* Longest relative path (in parts) drawn as an input of the path functions.
MaxDepth == 2

\* ------------------------------------------------------------------ names

N_posts == <<"p", "o", "s", "t", "s">>
N_test == <<"t", "e", "s", "t">>
N_git == <<".", "g", "i", "t">>
N_a_md == <<"a", ".", "m", "d">>
N_b_md == <<"b", ".", "m", "d">>
N_a_txt == <<"a", ".", "t", "x", "t">>
N_config == <<"c", "o", "n", "f", "i", "g">>
N_index_html == <<"i", "n", "d", "e", "x", ".", "h", "t", "m", "l">>
N_tags == <<"t", "a", "g", "s">>
N_pages == <<"p", "a", "g", "e", "s">>
N_slash == <<"/">>
N_home == <<"h", "o", "m", "e">>
N_Code == <<"C", "o", "d", "e">>
N_website_sources == <<"w", "e", "b", "s", "i", "t", "e", "-", "s", "o", "u", "r", "c", "e", "s">>
N_github_io == <<"m", "a", "r", "i", "o", "s", "-", "z", "i", "n", "d", "i", "l", "i", "s", ".", "g", "i", "t", "h", "u", "b", ".", "i", "o">>
N_zindilis_com == <<"z", "i", "n", "d", "i", "l", "i", "s", ".", "c", "o", "m">>

\* ------------------------------------------------------------------ configuration

\* Path.home(): the parts of the home directory of the user running the program.
HOME == <<N_slash, N_home>>

SOURCE_DIR == HOME \o <<N_Code, N_website_sources>>

DESTINATION_DIR == HOME \o <<N_Code, N_github_io>>

POSTS_DIR == SOURCE_DIR \o <<N_posts>>

config_SOURCE_DIR == HOME \o <<N_Code, N_zindilis_com, N_website_sources>>

config_DESTINATION_DIR == HOME \o <<N_Code, N_zindilis_com, N_github_io>>

IGNORE ==
    << <<"R", "E", "A", "D", "M", "E", ".", "m", "d">>,
       <<"t", "e", "s", "t">>,
       <<"L", "I", "C", "E", "N", "S", "E">>,
       <<".", "g", "i", "t">>,
       <<".", "g", "i", "t", "/", "*">> >>

EXCERPT_SEPARATOR ==
    <<"<", "!", "-", "-", " ", "r", "e", "a", "d", " ", "m", "o", "r", "e", " ", "-", "-", ">">>

config_EXCERPT_SEPARATOR ==
    <<"<", "!", "-", "-", " ", "r", "e", "a", "d", " ", "m", "o", "r", "e", " ", "-", "-", ">">>

\* ------------------------------------------------------------------ strings and paths

\* The characters str.strip() removes (those the model's lines can hold).
Whitespace == {" "}

RECURSIVE lstrip(_)
lstrip(line) ==
    IF line # <<>> /\ Head(line) \in Whitespace THEN lstrip(Tail(line)) ELSE line

RECURSIVE rstrip(_)
rstrip(line) ==
    IF line # <<>> /\ line[Len(line)] \in Whitespace
    THEN rstrip(SubSeq(line, 1, Len(line) - 1))
    ELSE line

\* line.strip()
strip(line) == rstrip(lstrip(line))

\* "\n".join(lines)
RECURSIVE JoinLines(_)
JoinLines(ls) ==
    IF ls = <<>> THEN <<>>
    ELSE IF Len(ls) = 1 THEN ls[1]
    ELSE ls[1] \o <<"\n">> \o JoinLines(Tail(ls))

\* text.find(sub): the 0-based position of the first occurrence, -1 without one.
str_find(text, sub) ==
    LET hits == {i \in 0..(Len(text) - Len(sub)) :
                    SubSeq(text, i + 1, i + Len(sub)) = sub}
    IN  IF hits = {} THEN -1
        ELSE CHOOSE i \in hits : \A j \in hits : i <= j

\* sub in text
str_contains(text, sub) ==
    \E i \in 0..(Len(text) - Len(sub)) : SubSeq(text, i + 1, i + Len(sub)) = sub

\* text[:n]
Prefix(text, n) == SubSeq(text, 1, n)

\* The "---" line that opens and closes the front matter.
Delimiter == <<"-", "-", "-">>

\* fnmatch.fnmatch(name, pat) on POSIX: the whole of name matches pat, where
\* "*" matches any run of characters ("/" included) and "?" any one character.
RECURSIVE fnmatch(_, _)
fnmatch(name, pat) ==
    IF pat = <<>> THEN name = <<>>
    ELSE IF Head(pat) = "*"
         THEN fnmatch(name, Tail(pat)) \/ (name # <<>> /\ fnmatch(Tail(name), pat))
    ELSE IF Head(pat) = "?"
         THEN name # <<>> /\ fnmatch(Tail(name), Tail(pat))
    ELSE name # <<>> /\ Head(name) = Head(pat) /\ fnmatch(Tail(name), Tail(pat))

\* "/".join(parts)
RECURSIVE JoinParts(_)
JoinParts(parts) ==
    IF parts = <<>> THEN <<>>
    ELSE IF Len(parts) = 1 THEN parts[1]
    ELSE parts[1] \o <<"/">> \o JoinParts(Tail(parts))

\* str(path) of a relative path: the parts joined by "/", "." for the empty path.
PathStr(parts) == IF parts = <<>> THEN <<".">> ELSE JoinParts(parts)

\* path.match("*.md"): a relative pattern of one part is matched against the
\* last part of the path; a path without parts matches nothing.
PathMatchMd(parts) ==
    parts # <<>> /\ fnmatch(parts[Len(parts)], <<"*", ".", "m", "d">>)

\* path.with_name(name): the last part replaced (the model never calls it on a
\* path without parts, where pathlib raises ValueError).
with_name(parts, name) == SubSeq(parts, 1, Len(parts) - 1) \o <<name>>

\* path.parents[0]
Parent(parts) == SubSeq(parts, 1, Len(parts) - 1)

\* source.parts[len(SOURCE_DIR.parts):] joined by "/" and parsed as a Path again.
get_source_path_relative_to_source_dir(source) ==
    SubSeq(source, Len(SOURCE_DIR) + 1, Len(source))

path_relative_to_source_dir(path) ==
    SubSeq(path, Len(config_SOURCE_DIR) + 1, Len(path))

is_md(path) == PathMatchMd(path)

\* A variant that puts index.html beneath the Markdown path instead of beside it.
get_destination_beneath(source) ==
    LET destination_path == DESTINATION_DIR \o get_source_path_relative_to_source_dir(source)
    IN  IF PathMatchMd(source)
        THEN destination_path \o <<N_index_html>>
        ELSE destination_path

get_destination(source) ==
    LET destination_path == DESTINATION_DIR \o get_source_path_relative_to_source_dir(source)
    IN  IF PathMatchMd(source)
        THEN with_name(destination_path, N_index_html)
        ELSE destination_path

\* A variant that keeps the relative structure for every path.
Source_destination_plain(path) ==
    config_DESTINATION_DIR \o path_relative_to_source_dir(path)

Source_destination(path) ==
    LET _destination == config_DESTINATION_DIR \o path_relative_to_source_dir(path)
    IN  IF is_md(path)
        THEN with_name(_destination, N_index_html)
        ELSE _destination

\* ------------------------------------------------------------------ post text

\* Python's None, and a value that is present, in one shape.
None == [is_none |-> TRUE, v |-> <<>>, extras |-> {}]

Some(v) == [is_none |-> FALSE, v |-> v, extras |-> {}]

\* markdown2.markdown(text, extras=...): the Markdown library is an external
\* collaborator; its result is kept as the text it was given and the extras
\* it was called with.
markdown2_markdown(text, extras) == [is_none |-> FALSE, v |-> text, extras |-> extras]

\* The loop of Post._get_front_matter_text over the remaining lines.
RECURSIVE front_matter_lines(_, _)
front_matter_lines(ls, line_is_front_matter) ==
    IF ls = <<>> THEN <<>>
    ELSE LET line == strip(Head(ls))
         IN  IF line = Delimiter /\ ~line_is_front_matter
             THEN front_matter_lines(Tail(ls), TRUE)
             ELSE IF line # Delimiter /\ line_is_front_matter
             THEN <<line>> \o front_matter_lines(Tail(ls), line_is_front_matter)
             ELSE IF line = Delimiter /\ line_is_front_matter
             THEN <<>>
             ELSE front_matter_lines(Tail(ls), line_is_front_matter)

Post_get_front_matter_text(ls) == JoinLines(front_matter_lines(ls, FALSE))

\* The loop of Post.text over the remaining lines.
RECURSIVE lines_excluding_front_matter(_, _)
lines_excluding_front_matter(ls, line_is_front_matter) ==
    IF ls = <<>> THEN <<>>
    ELSE LET line == Head(ls)
             stripped_line == strip(line)
         IN  IF stripped_line = Delimiter /\ ~line_is_front_matter
             THEN lines_excluding_front_matter(Tail(ls), TRUE)
             ELSE IF stripped_line # Delimiter /\ line_is_front_matter
             THEN lines_excluding_front_matter(Tail(ls), line_is_front_matter)
             ELSE IF stripped_line = Delimiter /\ line_is_front_matter
             THEN lines_excluding_front_matter(Tail(ls), FALSE)
             ELSE <<line>> \o lines_excluding_front_matter(Tail(ls), line_is_front_matter)

Post_text(ls) == JoinLines(lines_excluding_front_matter(ls, FALSE))

Post_excerpt(ls) ==
    IF ~str_contains(Post_text(ls), config_EXCERPT_SEPARATOR)
    THEN None
    ELSE LET separator_position == str_find(Post_text(ls), config_EXCERPT_SEPARATOR)
             _excerpt == Prefix(Post_text(ls), separator_position)
         IN  markdown2_markdown(_excerpt, {"fenced-code-blocks"})

\* The loop of get_source_text_excluding_front_matter over the remaining lines.
RECURSIVE source_lines_excluding_front_matter(_, _)
source_lines_excluding_front_matter(ls, line_is_front_matter) ==
    IF ls = <<>> THEN <<>>
    ELSE LET line == Head(ls)
             stripped_line == strip(line)
         IN  IF stripped_line = Delimiter /\ ~line_is_front_matter
             THEN source_lines_excluding_front_matter(Tail(ls), TRUE)
             ELSE IF stripped_line # Delimiter /\ line_is_front_matter
             THEN source_lines_excluding_front_matter(Tail(ls), line_is_front_matter)
             ELSE IF stripped_line = Delimiter /\ line_is_front_matter
             THEN source_lines_excluding_front_matter(Tail(ls), FALSE)
             ELSE <<line>> \o source_lines_excluding_front_matter(Tail(ls), line_is_front_matter)

get_source_text_excluding_front_matter(ls) ==
    JoinLines(source_lines_excluding_front_matter(ls, FALSE))

get_post_excerpt(ls) ==
    LET source_text_excluding_front_matter == get_source_text_excluding_front_matter(ls)
    IN  IF str_contains(source_text_excluding_front_matter, EXCERPT_SEPARATOR)
        THEN LET separator_position ==
                     str_find(source_text_excluding_front_matter, EXCERPT_SEPARATOR)
             IN  Some(Prefix(source_text_excluding_front_matter, separator_position))
        ELSE None

\* The "excerpt" entry paginate() puts in the context of a post:
\* markdown2.markdown(excerpt) if excerpt else None, where an empty string is
\* falsy like None.
paginate_excerpt(ls) ==
    LET excerpt == get_post_excerpt(ls)
    IN  IF ~excerpt.is_none /\ excerpt.v # <<>>
        THEN markdown2_markdown(excerpt.v, {})
        ELSE None

\* ------------------------------------------------------------------ pagination

POSTS_PER_PAGE == 10

\* A defaultdict(list) read at key k: a missing key is inserted with [].
DefaultDictTouch(d, k) == IF k \in DOMAIN d THEN d ELSE d @@ (k :> <<>>)

\* get_posts_by_publication_date() over the posts that POSTS_DIR.glob("**/*.md")
\* yields, in the order it yields them: date -> the posts of that date, in
\* glob order. A post is [id, date], date being its "first-published".
RECURSIVE get_posts_by_publication_date(_)
get_posts_by_publication_date(globbed) ==
    IF globbed = <<>> THEN <<>>
    ELSE LET before == get_posts_by_publication_date(SubSeq(globbed, 1, Len(globbed) - 1))
             post == globbed[Len(globbed)]
             date_first_published == post.date
             touched == DefaultDictTouch(before, date_first_published)
         IN  [touched EXCEPT ![date_first_published] = Append(@, post)]

\* sorted(keys, reverse=True)
RECURSIVE sorted_reverse(_)
sorted_reverse(keys) ==
    IF keys = {} THEN <<>>
    ELSE LET top == CHOOSE k \in keys : \A j \in keys : j <= k
         IN  <<top>> \o sorted_reverse(keys \ {top})

\* One pass of the inner loop body of get_posts_by_page_number (lines 231-234)
\* with a page-full test that never holds.
page_append_unbounded(st, post) ==
    LET touched == DefaultDictTouch(st.pages, st.page_index)
    IN  [pages |-> [touched EXCEPT ![st.page_index] = Append(@, post)],
         page_index |-> st.page_index]

\* One pass of the inner loop body of get_posts_by_page_number (lines 231-234).
page_append(st, post) ==
    LET touched == DefaultDictTouch(st.pages, st.page_index)
        page_index == IF Len(touched[st.page_index]) = POSTS_PER_PAGE
                      THEN st.page_index + 1
                      ELSE st.page_index
        touched_again == DefaultDictTouch(touched, page_index)
    IN  [pages |-> [touched_again EXCEPT ![page_index] = Append(@, post)],
         page_index |-> page_index]

\* The inner loop over the posts of one publication date.
RECURSIVE page_append_all(_, _)
page_append_all(st, posts) ==
    IF posts = <<>> THEN st
    ELSE page_append_all(page_append(st, Head(posts)), Tail(posts))

\* The outer loop over the publication dates, latest first.
RECURSIVE page_dates(_, _, _)
page_dates(st, publication_dates, posts_by_publication_date) ==
    IF publication_dates = <<>> THEN st
    ELSE page_dates(page_append_all(st, posts_by_publication_date[Head(publication_dates)]),
                    Tail(publication_dates), posts_by_publication_date)

\* get_posts_by_page_number(): page number -> the posts of the page.
get_posts_by_page_number(globbed) ==
    LET posts_by_publication_date == get_posts_by_publication_date(globbed)
        publication_dates == sorted_reverse(DOMAIN posts_by_publication_date)
    IN  page_dates([pages |-> <<>>, page_index |-> 0],
                   publication_dates, posts_by_publication_date).pages

\* ------------------------------------------------------------------ sources and tags

\* is_source_ignored(source)
is_source_ignored(source) ==
    LET source_path_relative_to_source_dir == get_source_path_relative_to_source_dir(source)
    IN  \E i \in 1..Len(IGNORE) :
            fnmatch(PathStr(source_path_relative_to_source_dir), IGNORE[i])

\* str.lower() of one character (ASCII letters).
LowerChar(c) ==
    LET upper == <<"A", "B", "C", "D", "E", "F", "G", "H", "I", "J", "K", "L", "M",
                   "N", "O", "P", "Q", "R", "S", "T", "U", "V", "W", "X", "Y", "Z">>
        lower == <<"a", "b", "c", "d", "e", "f", "g", "h", "i", "j", "k", "l", "m",
                   "n", "o", "p", "q", "r", "s", "t", "u", "v", "w", "x", "y", "z">>
    IN  IF \E i \in 1..26 : upper[i] = c
        THEN lower[CHOOSE i \in 1..26 : upper[i] = c]
        ELSE c

\* A variant that keeps the case: tag.replace(" ", "-")
slug_keep_case(tag) ==
    [i \in 1..Len(tag) |-> IF tag[i] = " " THEN "-" ELSE tag[i]]

\* tag.lower().replace(" ", "-")
slug(tag) ==
    [i \in 1..Len(tag) |-> IF LowerChar(tag[i]) = " " THEN "-" ELSE LowerChar(tag[i])]

\* front_matter.get(key, default) on the dictionary yaml.load() returned.
fm_has(front_matter, key) == key \in front_matter.keys

\* get_tags(source), given the front matter of the source.
get_tags(front_matter) ==
    IF fm_has(front_matter, "tags")
    THEN [i \in 1..Len(front_matter.tags) |-> slug(front_matter.tags[i])]
    ELSE <<>>

\* get_date_published(source), given the front matter of the source.
get_date_published(front_matter) ==
    IF fm_has(front_matter, "first-published") THEN Some(front_matter.date) ELSE None

\* str(n) of an integer n >= 0.
RECURSIVE str_int(_)
str_int(n) ==
    LET digits == <<"0", "1", "2", "3", "4", "5", "6", "7", "8", "9">>
    IN  IF n < 10 THEN <<digits[n + 1]>>
        ELSE str_int(n \div 10) \o <<digits[(n % 10) + 1]>>

\* The directories path.mkdir(parents=True, exist_ok=True) leaves in place:
\* the path and every ancestor of it.
Ancestors(path) == {SubSeq(path, 1, k) : k \in 1..Len(path)}

\* ------------------------------------------------------------------ state

VARIABLES
    srcPaths,   \* path functions: the two source paths given (relative parts, is_dir)
    destOut,    \* path functions: the destinations computed for them, or NoDest
    lines,      \* post text: the lines of the post file (read_text().splitlines())
    fmOut,      \* post text: Post._get_front_matter_text(), once evaluated
    textOut,    \* post text: Post.text, once evaluated
    excerptOut, \* post text: Post.excerpt, once evaluated
    pageExcerptOut, \* post text: the excerpt of paginate()'s context, once evaluated
    globPosts,  \* pagination: the posts in the order POSTS_DIR.glob yields them
    pagesOut,   \* pagination: get_posts_by_page_number(), once evaluated
    tree,       \* run: the entries under SOURCE_DIR, each [rel, is_dir]
    content,    \* run: the front matter of every Markdown file, by relative path
    args,       \* run: the parsed command line, [verbosity, dry_run]
    pc,         \* run: where main() is
    todo,       \* run: the sources SOURCE_DIR.glob("**/*") has yet to yield
    handled,    \* run: what process() did with each source it was given
    dirs,       \* run: the directories that exist at or under DESTINATION_DIR
    files,      \* run: the files that exist under DESTINATION_DIR
    renders,    \* run: the template.render() calls made, [template, target]
    calls,      \* run: the calls main() has made, in order, [fn, arg]
    attempts,   \* run: the file writes tried, [path, parent_exists]
    raised,     \* run: the exception that ended the run, if any
    frontIn,    \* front matter: what yaml.load() returned for the post
    fieldOut,   \* front matter: the outcome of reading a field of it, or NoField
    postObjs,   \* read cache: the path of every Post object constructed so far
    linesCache, \* read cache: the keys held by the cache of Post._get_lines
    srcCache,   \* read cache: the keys held by the cache of get_source_lines
    diskReads,  \* read cache: the read_text() calls made, by path and reader
    urlIn,      \* relative URL: the source path given (relative parts)
    urlOut,     \* relative URL: the URL and the destination computed, or NoUrl
    slugIn,     \* tag slug: the two tags given
    slugOut,    \* tag slug: their slugs and the slugs of the slugs, once evaluated
    tagPosts,   \* posts by tag: the "tags" list of each post, in glob order
    tagsOut     \* posts by tag: get_posts_by_tag(), once evaluated

destVars == <<srcPaths, destOut>>

textVars == <<lines, fmOut, textOut, excerptOut, pageExcerptOut>>

pageVars == <<globPosts, pagesOut>>

fsVars == <<dirs, files, renders, attempts>>

runVars == <<tree, content, args, pc, todo, handled, fsVars, calls, raised>>

frontVars == <<frontIn, fieldOut>>

cacheVars == <<postObjs, linesCache, srcCache, diskReads>>

urlVars == <<urlIn, urlOut>>

slugVars == <<slugIn, slugOut>>

tagVars == <<tagPosts, tagsOut>>

unitVars == <<frontVars, cacheVars, urlVars, slugVars, tagVars>>

vars == <<destVars, textVars, pageVars, runVars, unitVars>>

\* ------------------------------------------------------------------ path functions

PathNames == {N_posts, N_a_md, N_b_md, N_a_txt}

RECURSIVE RelPathsOfLen(_)
RelPathsOfLen(n) ==
    IF n = 0 THEN {<<>>}
    ELSE {Append(p, x) : p \in RelPathsOfLen(n - 1), x \in PathNames}

\* The relative paths of 1..MaxDepth parts.
RelPaths == UNION {RelPathsOfLen(n) : n \in 1..MaxDepth}

SourceEntries == [rel : RelPaths, is_dir : BOOLEAN]

NoDest == [impl |-> "none", d |-> <<>>, root |-> <<>>]

\* A property that has not been evaluated, and one that has.
NotEvaluated == [done |-> FALSE, v |-> <<>>]

Evaluated(v) == [done |-> TRUE, v |-> v]

\* The post-text state of a run that evaluates no post property.
TextIdle ==
    /\ lines = <<>>
    /\ fmOut = NotEvaluated
    /\ textOut = NotEvaluated
    /\ excerptOut = NotEvaluated
    /\ pageExcerptOut = NotEvaluated

NoException == [exc |-> "none", path |-> <<>>]

\* The state of the pipeline while main() is not run.
RunIdle ==
    /\ tree = {}
    /\ content = <<>>
    /\ args = [verbosity |-> 0, dry_run |-> FALSE]
    /\ pc = "idle"
    /\ todo = {}
    /\ handled = {}
    /\ dirs = {}
    /\ files = {}
    /\ renders = {}
    /\ calls = <<>>
    /\ attempts = {}
    /\ raised = NoException

\* The pagination state of a run that paginates nothing.
PagesIdle ==
    /\ globPosts = <<>>
    /\ pagesOut = NotEvaluated

\* The path-function state of a run that maps no path.
DestIdle ==
    /\ srcPaths = <<>>
    /\ destOut = NoDest

NoField == [impl |-> "none", field |-> "", exc |-> "none", v |-> None]

\* The front-matter state of a run that reads no field.
FrontIdle ==
    /\ frontIn = <<>>
    /\ fieldOut = NoField

\* The cache state of a run that reads no post.
CacheIdle ==
    /\ postObjs = <<>>
    /\ linesCache = <<>>
    /\ srcCache = <<>>
    /\ diskReads = <<>>

NoUrl == [impl |-> "none", url |-> <<>>, d |-> <<>>, root |-> <<>>]

\* The URL state of a run that computes no URL.
UrlIdle ==
    /\ urlIn = <<>>
    /\ urlOut = NoUrl

\* The slug state of a run that slugs no tag.
SlugIdle ==
    /\ slugIn = <<>>
    /\ slugOut = NotEvaluated

\* The tag state of a run that groups no post.
TagsIdle ==
    /\ tagPosts = <<>>
    /\ tagsOut = NotEvaluated

\* The state of the parts that the path, text, pagination and pipeline runs
\* leave alone.
UnitsIdle == FrontIdle /\ CacheIdle /\ UrlIdle /\ SlugIdle /\ TagsIdle

\* The state of the parts that the runs of a single function leave alone.
CoreIdle == DestIdle /\ TextIdle /\ PagesIdle /\ RunIdle

coreVars == <<destVars, textVars, pageVars, runVars>>

InitDest ==
    /\ srcPaths \in SourceEntries \X SourceEntries
    /\ destOut = NoDest
    /\ TextIdle
    /\ PagesIdle
    /\ RunIdle
    /\ UnitsIdle

\* get_destination() of __init__.py applied to both paths under SOURCE_DIR.
GetDestination ==
    /\ destOut.impl = "none"
    /\ destOut' = [impl |-> "get_destination",
                   d |-> <<get_destination(SOURCE_DIR \o srcPaths[1].rel),
                           get_destination(SOURCE_DIR \o srcPaths[2].rel)>>,
                   root |-> DESTINATION_DIR]
    /\ UNCHANGED <<srcPaths, textVars, pageVars, runVars, unitVars>>

\* Source(path).destination of models.py applied to both paths under config.SOURCE_DIR.
SourceDestination ==
    /\ destOut.impl = "none"
    /\ destOut' = [impl |-> "Source.destination",
                   d |-> <<Source_destination(config_SOURCE_DIR \o srcPaths[1].rel),
                           Source_destination(config_SOURCE_DIR \o srcPaths[2].rel)>>,
                   root |-> config_DESTINATION_DIR]
    /\ UNCHANGED <<srcPaths, textVars, pageVars, runVars, unitVars>>

NextDest == GetDestination \/ SourceDestination

SpecDest == InitDest /\ [][NextDest]_vars

\* Path.stem of a name that ends in ".md": the name without that extension.
StemMd(name) == SubSeq(name, 1, Len(name) - 3)

DestComputed == destOut.impl # "none"

BothMd == PathMatchMd(srcPaths[1].rel) /\ PathMatchMd(srcPaths[2].rel)

\* C5 (as claimed): any two distinct Markdown source paths under the source
\* root have distinct destinations.
C5_UniqueDestinations ==
    (DestComputed /\ BothMd /\ srcPaths[1].rel # srcPaths[2].rel)
        => destOut.d[1] # destOut.d[2]

\* C5 (amended): the destination is a function of the path alone (equal paths
\* give equal destinations, whatever else differs), and two distinct Markdown
\* paths have the same destination exactly when they lie in the same
\* directory, where both map to that directory's index.html.
C5_DestinationPerDirectory ==
    DestComputed =>
        /\ (srcPaths[1].rel = srcPaths[2].rel => destOut.d[1] = destOut.d[2])
        /\ (BothMd /\ srcPaths[1].rel # srcPaths[2].rel) =>
               (destOut.d[1] = destOut.d[2]
                   <=> Parent(srcPaths[1].rel) = Parent(srcPaths[2].rel))

\* Two different Markdown files of one directory were mapped to one destination.
C5_Witness ==
    /\ DestComputed
    /\ srcPaths[1].rel = <<N_posts, N_a_md>>
    /\ srcPaths[2].rel = <<N_posts, N_b_md>>
    /\ ~srcPaths[1].is_dir /\ ~srcPaths[2].is_dir
    /\ destOut.d[1] = destOut.d[2]
    /\ destOut.d[1] = destOut.root \o <<N_posts, N_index_html>>

\* C6 (as claimed): a directory or non-Markdown file keeps its relative path
\* under the destination root; a Markdown file <rel>/<name>.md goes to
\* <rel>/<name>/index.html.
C6_DestinationInNamedDirectory ==
    DestComputed =>
        \A i \in 1..2 :
            LET rel == srcPaths[i].rel
            IN  IF PathMatchMd(rel) /\ ~srcPaths[i].is_dir
                THEN destOut.d[i] = destOut.root \o Parent(rel)
                                       \o <<StemMd(rel[Len(rel)]), N_index_html>>
                ELSE destOut.d[i] = destOut.root \o rel

\* C6 (amended): a path whose name does not match *.md (directory or file)
\* keeps its relative path under the destination root; a path whose name
\* matches *.md (file or directory) goes to index.html in the destination of
\* its parent directory: <rel>/<name>.md maps to <rel>/index.html.
C6_DestinationBesideSiblings ==
    DestComputed =>
        \A i \in 1..2 :
            LET rel == srcPaths[i].rel
            IN  IF PathMatchMd(rel)
                THEN destOut.d[i] = destOut.root \o Parent(rel) \o <<N_index_html>>
                ELSE destOut.d[i] = destOut.root \o rel

\* A Markdown file in a subdirectory and a non-Markdown file were both mapped.
C6_Witness ==
    /\ DestComputed
    /\ srcPaths[1] = [rel |-> <<N_posts, N_a_md>>, is_dir |-> FALSE]
    /\ srcPaths[2] = [rel |-> <<N_posts, N_a_txt>>, is_dir |-> FALSE]
    /\ destOut.d[1] = destOut.root \o <<N_posts, N_index_html>>
    /\ destOut.d[2] = destOut.root \o <<N_posts, N_a_txt>>

\* ------------------------------------------------------------------ post text

\* Longest post file, in lines.
MaxLines == 5

\* The lines a post file is made of: the delimiter, bare and indented, a
\* front-matter or body line, bare and indented, and the excerpt separator.
LineKinds ==
    { Delimiter,
      <<" ">> \o Delimiter,
      <<"a">>,
      <<" ", "b">>,
      config_EXCERPT_SEPARATOR }

RECURSIVE FilesOfLen(_)
FilesOfLen(n) ==
    IF n = 0 THEN {<<>>}
    ELSE {Append(f, l) : f \in FilesOfLen(n - 1), l \in LineKinds}

PostFiles == UNION {FilesOfLen(n) : n \in 0..MaxLines}

InitText ==
    /\ lines \in PostFiles
    /\ fmOut = NotEvaluated
    /\ textOut = NotEvaluated
    /\ excerptOut = NotEvaluated
    /\ pageExcerptOut = NotEvaluated
    /\ DestIdle
    /\ PagesIdle
    /\ RunIdle
    /\ UnitsIdle

\* post._get_front_matter_text()
GetFrontMatterText ==
    /\ ~fmOut.done
    /\ fmOut' = Evaluated(Post_get_front_matter_text(lines))
    /\ UNCHANGED <<lines, textOut, excerptOut, pageExcerptOut, destVars, pageVars, runVars, unitVars>>

\* post.text
GetText ==
    /\ ~textOut.done
    /\ textOut' = Evaluated(Post_text(lines))
    /\ UNCHANGED <<lines, fmOut, excerptOut, pageExcerptOut, destVars, pageVars, runVars, unitVars>>

\* post.excerpt
GetExcerpt ==
    /\ ~excerptOut.done
    /\ excerptOut' = Evaluated(Post_excerpt(lines))
    /\ UNCHANGED <<lines, fmOut, textOut, pageExcerptOut, destVars, pageVars, runVars, unitVars>>

\* The excerpt paginate() computes for the post (lines 368-376).
GetPaginateExcerpt ==
    /\ ~pageExcerptOut.done
    /\ pageExcerptOut' = Evaluated(paginate_excerpt(lines))
    /\ UNCHANGED <<lines, fmOut, textOut, excerptOut, destVars, pageVars, runVars, unitVars>>

NextText == GetFrontMatterText \/ GetText \/ GetExcerpt \/ GetPaginateExcerpt

SpecText == InitText /\ [][NextText]_vars

\* The positions of the delimiter lines of the file.
DelimiterLines == {i \in 1..Len(lines) : strip(lines[i]) = Delimiter}

\* The first delimiter line after the leading one.
ClosingDelimiter == CHOOSE c \in DelimiterLines \ {1} : \A d \in DelimiterLines \ {1} : c <= d

\* The file opens with a delimiter line that a later delimiter line closes.
HasFrontMatter == 1 \in DelimiterLines /\ DelimiterLines \ {1} # {}

\* The lines at the positions from..Len(ls) that satisfy keep, in file order.
RECURSIVE LinesFrom(_, _, _)
LinesFrom(ls, from, keep) ==
    IF from > Len(ls) THEN <<>>
    ELSE (IF from \in keep THEN <<ls[from]>> ELSE <<>>) \o LinesFrom(ls, from + 1, keep)

\* C8 (as claimed): the front matter is the lines strictly between the leading
\* delimiter and the first following one, and the body is every other
\* non-delimiter line in file order, lines after a later delimiter included.
C8_BodyIsEverythingElse ==
    (fmOut.done /\ textOut.done /\ HasFrontMatter) =>
        LET inside == {i \in 1..Len(lines) : 1 < i /\ i < ClosingDelimiter}
            outside == {i \in 1..Len(lines) : i > ClosingDelimiter} \ DelimiterLines
        IN  /\ fmOut.v = JoinLines([i \in 1..Len(LinesFrom(lines, 1, inside)) |->
                                        strip(LinesFrom(lines, 1, inside)[i])])
            /\ textOut.v = JoinLines(LinesFrom(lines, 1, outside))

\* C10 (as claimed): the excerpt is None exactly when the body lacks the
\* separator; otherwise it renders the body text before the first separator,
\* also when that text is empty, in Post.excerpt and in paginate()'s context.
C10_ExcerptIffSeparator ==
    (textOut.done /\ excerptOut.done /\ pageExcerptOut.done) =>
        \A e \in {excerptOut.v, pageExcerptOut.v} :
            /\ e.is_none <=> ~str_contains(textOut.v, config_EXCERPT_SEPARATOR)
            /\ ~e.is_none =>
                   e.v = Prefix(textOut.v, str_find(textOut.v, config_EXCERPT_SEPARATOR))

\* ------------------------------------------------------------------ pagination

\* Most posts under POSTS_DIR.
MaxPosts == 11

\* The publication dates of the posts, as day numbers: a later day is a
\* greater number.
PublicationDates == {1, 2}

\* The posts a glob can yield: n posts, numbered in glob order, of any dates.
GlobResults ==
    UNION {[1..n -> PublicationDates] : n \in 0..MaxPosts}

InitPages ==
    /\ \E dates \in GlobResults :
           globPosts = [i \in 1..Len(dates) |-> [id |-> i, date |-> dates[i]]]
    /\ pagesOut = NotEvaluated
    /\ DestIdle
    /\ TextIdle
    /\ RunIdle
    /\ UnitsIdle

\* get_posts_by_page_number()
GetPostsByPageNumber ==
    /\ ~pagesOut.done
    /\ pagesOut' = Evaluated(get_posts_by_page_number(globPosts))
    /\ UNCHANGED <<globPosts, destVars, textVars, runVars, unitVars>>

NextPages == GetPostsByPageNumber

SpecPages == InitPages /\ [][NextPages]_vars

\* The pages 0..n-1 of a result, one after the other.
RECURSIVE ConcatPages(_, _)
ConcatPages(pages, n) ==
    IF n = 0 THEN <<>> ELSE ConcatPages(pages, n - 1) \o pages[n - 1]

\* ceil(n / p)
CeilDiv(n, p) == (n + p - 1) \div p

\* C2: N posts give exactly ceil(N/P) pages keyed 0..ceil(N/P)-1 (none for
\* N = 0); every page but the last holds P posts and the last 1..P; the pages
\* in page order hold every post exactly once, publication dates non-increasing.
C2_Pagination ==
    pagesOut.done =>
        LET pages == pagesOut.v
            N == Len(globPosts)
            P == POSTS_PER_PAGE
            count == CeilDiv(N, P)
            all == ConcatPages(pages, count)
        IN  /\ DOMAIN pages = 0..(count - 1)
            /\ \A k \in DOMAIN pages :
                   IF k < count - 1 THEN Len(pages[k]) = P
                   ELSE Len(pages[k]) >= 1 /\ Len(pages[k]) <= P
            /\ Len(all) = N
            /\ \A i \in 1..N : \E j \in 1..Len(all) : all[j] = globPosts[i]
            /\ \A j \in 1..(Len(all) - 1) : all[j].date >= all[j + 1].date

\* Eleven posts, globbed oldest first, were split into a full page and a
\* second page of one post.
C2_Witness ==
    /\ pagesOut.done
    /\ Len(globPosts) = POSTS_PER_PAGE + 1
    /\ globPosts[1].date < globPosts[2].date
    /\ DOMAIN pagesOut.v = {0, 1}
    /\ Len(pagesOut.v[0]) = POSTS_PER_PAGE
    /\ Len(pagesOut.v[1]) = 1
    /\ pagesOut.v[1][1] = globPosts[1]

\* ------------------------------------------------------------------ the pipeline

\* The entries a source tree is drawn from.
SourceUniverse ==
    { [rel |-> <<N_test>>, is_dir |-> TRUE],
      [rel |-> <<N_test, N_a_txt>>, is_dir |-> FALSE],
      [rel |-> <<N_test, N_b_md>>, is_dir |-> FALSE],
      [rel |-> <<N_git>>, is_dir |-> TRUE],
      [rel |-> <<N_git, N_config>>, is_dir |-> FALSE],
      [rel |-> <<N_posts>>, is_dir |-> TRUE],
      [rel |-> <<N_posts, N_a_md>>, is_dir |-> FALSE],
      [rel |-> <<N_posts, N_b_md>>, is_dir |-> FALSE],
      [rel |-> <<N_a_txt>>, is_dir |-> FALSE] }

\* A tree holds the directory of every entry it holds.
IsTree(t) ==
    \A e \in t : Len(e.rel) > 1 => [rel |-> Parent(e.rel), is_dir |-> TRUE] \in t

SourceTrees == {t \in SUBSET SourceUniverse : IsTree(t)}

\* The front matter yaml.load() returns for a post: the keys present, the
\* "first-published" date and the "tags" list.
FrontMatters ==
    { [keys |-> {"title", "first-published", "tags"}, date |-> 1,
       tags |-> << <<"A", " ", "b">> >>],
      [keys |-> {"title", "first-published"}, date |-> 2,
       tags |-> <<>>],
      [keys |-> {"title", "first-published", "tags"}, date |-> 1,
       tags |-> << <<"a", " ", "b">>, <<"c">> >>] }

\* The command lines get_args() accepts: -v counted, --dry-run or not.
Verbosities == {0, 1}

MarkdownFiles(t) == {e.rel : e \in {x \in t : ~x.is_dir /\ PathMatchMd(x.rel)}}

\* The directories that exist before the run: DESTINATION_DIR and above.
DirsBefore == Ancestors(DESTINATION_DIR)

Init ==
    /\ tree \in SourceTrees
    /\ content \in [MarkdownFiles(tree) -> FrontMatters]
    /\ args \in [verbosity : Verbosities, dry_run : BOOLEAN]
    /\ pc = "main"
    /\ todo = {}
    /\ handled = {}
    /\ dirs = DirsBefore
    /\ files = {}
    /\ renders = {}
    /\ calls = <<>>
    /\ attempts = {}
    /\ raised = NoException
    /\ DestIdle
    /\ TextIdle
    /\ PagesIdle
    /\ UnitsIdle

Call(fn, arg) == [fn |-> fn, arg |-> arg]

\* path.write_text() / write_bytes() cannot create the file: the parent
\* directory is missing.
WriteFails(path, existing) == Parent(path) \notin existing

\* The sequences that list every element of S once.
Orders(S) ==
    {f \in [1..Cardinality(S) -> S] : \A i, j \in 1..Cardinality(S) : f[i] = f[j] => i = j}

\* POSTS_DIR.glob("**/*.md"): the entries beneath POSTS_DIR whose name matches.
PostPaths ==
    {e.rel : e \in {x \in tree : /\ Len(x.rel) > 1
                                  /\ x.rel[1] = N_posts
                                  /\ PathMatchMd(x.rel)}}

\* get_posts_by_tag() over the posts in glob order: tag -> the posts appended
\* under it, once per occurrence of the tag among a post's tags.
RECURSIVE append_tags(_, _, _)
append_tags(posts_by_tag, tags, post) ==
    IF tags = <<>> THEN posts_by_tag
    ELSE LET touched == DefaultDictTouch(posts_by_tag, Head(tags))
         IN  append_tags([touched EXCEPT ![Head(tags)] = Append(@, post)], Tail(tags), post)

RECURSIVE get_posts_by_tag(_, _)
get_posts_by_tag(globbed, fm) ==
    IF globbed = <<>> THEN <<>>
    ELSE LET before == get_posts_by_tag(SubSeq(globbed, 1, Len(globbed) - 1), fm)
             post == globbed[Len(globbed)]
             tags == get_tags(fm[post])
         IN  append_tags(before, tags, post)

\* main(): get_args(), setup_logging(args.verbosity), then the call of render().
MainStart ==
    /\ pc = "main"
    /\ calls' = <<Call("setup_logging", args.verbosity), Call("render", args.dry_run)>>
    /\ todo' = tree
    /\ pc' = "render"
    /\ UNCHANGED <<tree, content, args, handled, fsVars, raised>>
    /\ UNCHANGED <<destVars, textVars, pageVars, unitVars>>

\* The entries of the tree that directory dir (relative parts) holds.
Listing(dir) == {e \in tree : Parent(e.rel) = dir}

\* SOURCE_DIR.glob("**/*") walks the tree top-down and lists one directory at a
\* time, in the order the file system returns the entries: an entry is yielded
\* once the listing that holds its directory is complete, and while no other
\* directory is partly listed.
Yields(s) ==
    /\ pc = "render"
    /\ s \in todo
    /\ Len(s.rel) > 1 => Listing(Parent(Parent(s.rel))) \cap todo = {}
    /\ \A e \in todo :
           Parent(e.rel) # Parent(s.rel) => Listing(Parent(e.rel)) \subseteq todo

Handled(s, op) == [rel |-> s.rel, op |-> op]

\* process(source) of an ignored source.
ProcessIgnored(s) ==
    /\ Yields(s)
    /\ is_source_ignored(SOURCE_DIR \o s.rel)
    /\ handled' = handled \cup {Handled(s, "ignored")}
    /\ todo' = todo \ {s}
    /\ UNCHANGED <<tree, content, args, pc, fsVars, calls, raised>>
    /\ UNCHANGED <<destVars, textVars, pageVars, unitVars>>

\* process(source) of a directory: create_directory().
ProcessDirectory(s) ==
    /\ Yields(s)
    /\ ~is_source_ignored(SOURCE_DIR \o s.rel)
    /\ s.is_dir
    /\ LET destination == get_destination(SOURCE_DIR \o s.rel)
       IN  dirs' = IF ~args.dry_run THEN dirs \cup Ancestors(destination) ELSE dirs
    /\ handled' = handled \cup {Handled(s, "create_directory")}
    /\ todo' = todo \ {s}
    /\ UNCHANGED <<tree, content, args, pc, files, renders, attempts, calls, raised>>
    /\ UNCHANGED <<destVars, textVars, pageVars, unitVars>>

\* process(source) of a Markdown file: create_page_from_markdown().
ProcessMarkdown(s) ==
    /\ Yields(s)
    /\ ~is_source_ignored(SOURCE_DIR \o s.rel)
    /\ ~s.is_dir
    /\ PathMatchMd(SOURCE_DIR \o s.rel)
    /\ LET destination == get_destination(SOURCE_DIR \o s.rel)
           made == dirs \cup Ancestors(Parent(destination))
       IN  /\ renders' = renders \cup {[template |-> "post.html", target |-> destination]}
           /\ IF ~args.dry_run
              THEN /\ dirs' = made
                   /\ files' = files \cup {destination}
                   /\ attempts' = attempts \cup
                          {[path |-> destination, parent_exists |-> ~WriteFails(destination, made)]}
              ELSE UNCHANGED <<dirs, files, attempts>>
    /\ handled' = handled \cup {Handled(s, "create_page_from_markdown")}
    /\ todo' = todo \ {s}
    /\ UNCHANGED <<tree, content, args, pc, calls, raised>>
    /\ UNCHANGED <<destVars, textVars, pageVars, unitVars>>

\* process(source) of any other file: copy_verbatim(), when the write succeeds
\* or is not made.
ProcessVerbatim(s) ==
    /\ Yields(s)
    /\ ~is_source_ignored(SOURCE_DIR \o s.rel)
    /\ ~s.is_dir
    /\ ~PathMatchMd(SOURCE_DIR \o s.rel)
    /\ LET destination == get_destination(SOURCE_DIR \o s.rel)
       IN  /\ args.dry_run \/ ~WriteFails(destination, dirs)
           /\ IF ~args.dry_run
              THEN /\ files' = files \cup {destination}
                   /\ attempts' = attempts \cup {[path |-> destination, parent_exists |-> TRUE]}
              ELSE UNCHANGED <<files, attempts>>
    /\ handled' = handled \cup {Handled(s, "copy_verbatim")}
    /\ todo' = todo \ {s}
    /\ UNCHANGED <<tree, content, args, pc, dirs, renders, calls, raised>>
    /\ UNCHANGED <<destVars, textVars, pageVars, unitVars>>

\* process(source) of any other file: copy_verbatim(), when write_bytes()
\* raises FileNotFoundError, which nothing catches: the run ends.
ProcessVerbatimRaises(s) ==
    /\ Yields(s)
    /\ ~is_source_ignored(SOURCE_DIR \o s.rel)
    /\ ~s.is_dir
    /\ ~PathMatchMd(SOURCE_DIR \o s.rel)
    /\ ~args.dry_run
    /\ LET destination == get_destination(SOURCE_DIR \o s.rel)
       IN  /\ WriteFails(destination, dirs)
           /\ attempts' = attempts \cup {[path |-> destination, parent_exists |-> FALSE]}
           /\ raised' = [exc |-> "FileNotFoundError", path |-> destination]
    /\ handled' = handled \cup {Handled(s, "copy_verbatim")}
    /\ todo' = todo \ {s}
    /\ pc' = "raised"
    /\ UNCHANGED <<tree, content, args, dirs, files, renders, calls>>
    /\ UNCHANGED <<destVars, textVars, pageVars, unitVars>>

\* render() returns and main() calls paginate().
RenderReturns ==
    /\ pc = "render"
    /\ todo = {}
    /\ calls' = Append(calls, Call("paginate", args.dry_run))
    /\ pc' = "paginate"
    /\ UNCHANGED <<tree, content, args, todo, handled, fsVars, raised>>
    /\ UNCHANGED <<destVars, textVars, pageVars, unitVars>>

\* The path of a page of paginate().
page_path(page) ==
    IF page = 0
    THEN DESTINATION_DIR \o <<N_index_html>>
    ELSE DESTINATION_DIR \o <<N_pages, str_int(page), N_index_html>>

\* paginate(dry_run); on return main() calls tag().
Paginate ==
    /\ pc = "paginate"
    /\ \E order \in Orders(PostPaths) :
          LET globbed == [i \in 1..Len(order) |->
                             [id |-> order[i],
                              date |-> get_date_published(content[order[i]]).v]]
              posts_by_page_number == get_posts_by_page_number(globbed)
              paths == {page_path(page) : page \in DOMAIN posts_by_page_number}
              made == dirs \cup UNION {Ancestors(Parent(pth)) : pth \in paths}
          IN  IF ~args.dry_run
              THEN /\ dirs' = made
                   /\ files' = files \cup paths
                   /\ renders' = renders \cup
                          {[template |-> "page.html", target |-> pth] : pth \in paths}
                   /\ attempts' = attempts \cup
                          {[path |-> pth, parent_exists |-> ~WriteFails(pth, made)] : pth \in paths}
              ELSE UNCHANGED <<dirs, files, renders, attempts>>
    /\ calls' = Append(calls, Call("tag", args.dry_run))
    /\ pc' = "tag"
    /\ UNCHANGED <<tree, content, args, todo, handled, raised>>
    /\ UNCHANGED <<destVars, textVars, pageVars, unitVars>>

\* tag(), first half: get_posts_by_tag() and create_page_per_tag().
CreatePagePerTag ==
    /\ pc = "tag"
    /\ \E order \in Orders(PostPaths) :
          LET posts_by_tag == get_posts_by_tag(order, content)
              paths == {DESTINATION_DIR \o <<N_tags, tg, N_index_html>> :
                            tg \in DOMAIN posts_by_tag}
              made == dirs \cup UNION {Ancestors(Parent(pth)) : pth \in paths}
          IN  IF ~args.dry_run
              THEN /\ dirs' = made
                   /\ files' = files \cup paths
                   /\ renders' = renders \cup
                          {[template |-> "tag.html", target |-> pth] : pth \in paths}
                   /\ attempts' = attempts \cup
                          {[path |-> pth, parent_exists |-> ~WriteFails(pth, made)] : pth \in paths}
              ELSE UNCHANGED <<dirs, files, renders, attempts>>
    /\ pc' = "tag_index"
    /\ UNCHANGED <<tree, content, args, todo, handled, calls, raised>>
    /\ UNCHANGED <<destVars, textVars, pageVars, unitVars>>

\* tag(), second half: create_tag_index(); tag() and main() return.
CreateTagIndex ==
    /\ pc = "tag_index"
    /\ LET tags_path == DESTINATION_DIR \o <<N_tags, N_index_html>>
           made == dirs \cup Ancestors(Parent(tags_path))
       IN  IF args.dry_run
           THEN /\ dirs' = made
                /\ files' = files \cup {tags_path}
                /\ renders' = renders \cup {[template |-> "tags.html", target |-> tags_path]}
                /\ attempts' = attempts \cup
                       {[path |-> tags_path, parent_exists |-> ~WriteFails(tags_path, made)]}
           ELSE UNCHANGED <<dirs, files, renders, attempts>>
    /\ pc' = "done"
    /\ UNCHANGED <<tree, content, args, todo, handled, calls, raised>>
    /\ UNCHANGED <<destVars, textVars, pageVars, unitVars>>

Process ==
    \E s \in SourceUniverse :
        \/ ProcessIgnored(s)
        \/ ProcessDirectory(s)
        \/ ProcessMarkdown(s)
        \/ ProcessVerbatim(s)
        \/ ProcessVerbatimRaises(s)

Next ==
    \/ MainStart
    \/ Process
    \/ RenderReturns
    \/ Paginate
    \/ CreatePagePerTag
    \/ CreateTagIndex

Spec == Init /\ [][Next]_vars

\* C1 (as claimed): in a run with the dry-run flag set no phase creates a
\* directory or writes a file: the destination tree stays as it was before.
C1_DryRunWritesNothing ==
    args.dry_run => (files = {} /\ dirs = DirsBefore)

\* C3 (as claimed): main() sets up logging and then calls render, paginate,
\* tag and generate_feeds, in this order, once each, with the dry-run flag
\* (get_args() defines no skip flag, so none is ever set).
C3_MainCallsFourPhases ==
    pc = "done" =>
        calls = << Call("setup_logging", args.verbosity),
                   Call("render", args.dry_run),
                   Call("paginate", args.dry_run),
                   Call("tag", args.dry_run),
                   Call("generate_feeds", args.dry_run) >>

N_feeds == <<"f", "e", "e", "d", "s">>

N_feed_xml == <<"f", "e", "e", "d", ".", "x", "m", "l">>

\* The slugged tags of all posts.
AllTags ==
    UNION {{get_tags(content[p])[i] : i \in 1..Len(get_tags(content[p]))} : p \in PostPaths}

\* C4 (as claimed): when a run without dry-run finishes without error, every
\* artifact of the output layout is written: each post's index.html, the
\* root index page and pages/<n>/index.html for the later pages, a page per
\* tag, tags/index.html, and the feed files under feeds/.
C4_AllArtifactsWritten ==
    (pc = "done" /\ ~args.dry_run /\ raised = NoException) =>
        /\ \A p \in PostPaths : get_destination(SOURCE_DIR \o p) \in files
        /\ PostPaths # {} => (DESTINATION_DIR \o <<N_index_html>>) \in files
        /\ \A n \in 1..(CeilDiv(Cardinality(PostPaths), POSTS_PER_PAGE) - 1) :
               (DESTINATION_DIR \o <<N_pages, str_int(n), N_index_html>>) \in files
        /\ \A tg \in AllTags : (DESTINATION_DIR \o <<N_tags, tg, N_index_html>>) \in files
        /\ (DESTINATION_DIR \o <<N_tags, N_index_html>>) \in files
        /\ (DESTINATION_DIR \o <<N_feeds, N_feed_xml>>) \in files
        /\ (DESTINATION_DIR \o <<N_feeds, N_index_html>>) \in files

\* The relative path, or a directory above it, matches a pattern of IGNORE.
IgnoreCovers(rel) ==
    \E k \in 1..Len(rel) : \E i \in 1..Len(IGNORE) :
        fnmatch(PathStr(SubSeq(rel, 1, k)), IGNORE[i])

\* C7 (as claimed): for a source whose relative path matches a pattern of
\* IGNORE, or that lies beneath a directory that matches one, process() does
\* nothing: it calls none of create_directory, create_page_from_markdown and
\* copy_verbatim.
C7_IgnoredSourcesUntouched ==
    \A h \in handled : IgnoreCovers(h.rel) => h.op = "ignored"

\* C9 (as claimed): whenever a file is written to a destination, the parent
\* directory of the destination exists by then, for every order in which the
\* sources are yielded and whether or not the parent source was ignored.
C9_ParentExistsAtWrite ==
    \A w \in attempts : w.parent_exists

\* The render calls of a run over the sources: post.html for every Markdown
\* file given to create_page_from_markdown, page.html for every page,
\* tag.html for every tag and tags.html for the tag index.
RenderCalls ==
    {[template |-> "post.html", target |-> get_destination(SOURCE_DIR \o h.rel)] :
         h \in {x \in handled : x.op = "create_page_from_markdown"}}
    \cup {[template |-> "page.html", target |-> page_path(n)] :
              n \in 0..(CeilDiv(Cardinality(PostPaths), POSTS_PER_PAGE) - 1)}
    \cup {[template |-> "tag.html", target |-> DESTINATION_DIR \o <<N_tags, tg, N_index_html>>] :
              tg \in AllTags}
    \cup {[template |-> "tags.html", target |-> DESTINATION_DIR \o <<N_tags, N_index_html>>]}

\* C14 (as claimed): a dry run that finishes has made every render call of a
\* run over the same sources (post, page, tag and tags templates), as a normal
\* run does: the render calls do not depend on the dry-run flag.
C14_DryRunRendersAll ==
    (pc = "done" /\ args.dry_run) => RenderCalls \subseteq renders

\* ------------------------------------------------------------------ front matter fields

N_T == <<"T">>

\* The dictionaries yaml.load() returns for a front matter: the keys present
\* and the values of "title", "first-published" and "tags".
FrontDicts ==
    [keys : SUBSET {"title", "first-published", "tags"},
     title : {N_T},
     date : PublicationDates,
     tags : {<<>>, << <<"c">> >>}]

\* yaml.load() of the front matter text: a dictionary, or None when the post
\* has no front matter (the text is empty).
YamlNone == [none |-> TRUE, d |-> [keys |-> {}, title |-> <<>>, date |-> 0, tags |-> <<>>]]

YamlDict(d) == [none |-> FALSE, d |-> d]

Loaded == {YamlNone} \cup {YamlDict(d) : d \in FrontDicts}

Returned(v) == [exc |-> "none", v |-> v]

Raised(exc) == [exc |-> exc, v |-> None]

\* get_title(source), given the dictionary of the source:
\* front_matter.get("title", None).
get_title(front_matter) ==
    IF fm_has(front_matter, "title") THEN Some(front_matter.title) ELSE None

\* Post.title, given the dictionary of the post: front_matter["title"].
Post_title(front_matter) ==
    IF fm_has(front_matter, "title")
    THEN Returned(Some(front_matter.title))
    ELSE Raised("KeyError")

\* Post.date_published, given the dictionary of the post:
\* front_matter["first-published"].
Post_date_published(front_matter) ==
    IF fm_has(front_matter, "first-published")
    THEN Returned(Some(front_matter.date))
    ELSE Raised("KeyError")

InitFront ==
    /\ frontIn \in Loaded
    /\ fieldOut = NoField
    /\ CoreIdle
    /\ CacheIdle
    /\ UrlIdle
    /\ SlugIdle
    /\ TagsIdle

FieldOutcome(impl, field, outcome) ==
    [impl |-> impl, field |-> field, exc |-> outcome.exc, v |-> outcome.v]

\* get_title(source) of __init__.py: None has no attribute "get".
GetTitle ==
    /\ fieldOut.impl = "none"
    /\ fieldOut' = FieldOutcome("get_title", "title",
                       IF frontIn.none THEN Raised("AttributeError")
                       ELSE Returned(get_title(frontIn.d)))
    /\ UNCHANGED <<frontIn, coreVars, cacheVars, urlVars, slugVars, tagVars>>

\* get_date_published(source) of __init__.py.
GetDatePublished ==
    /\ fieldOut.impl = "none"
    /\ fieldOut' = FieldOutcome("get_date_published", "first-published",
                       IF frontIn.none THEN Raised("AttributeError")
                       ELSE Returned(get_date_published(frontIn.d)))
    /\ UNCHANGED <<frontIn, coreVars, cacheVars, urlVars, slugVars, tagVars>>

\* Post.title of models.py: None is not subscriptable.
PostTitle ==
    /\ fieldOut.impl = "none"
    /\ fieldOut' = FieldOutcome("Post.title", "title",
                       IF frontIn.none THEN Raised("TypeError")
                       ELSE Post_title(frontIn.d))
    /\ UNCHANGED <<frontIn, coreVars, cacheVars, urlVars, slugVars, tagVars>>

\* Post.date_published of models.py.
PostDatePublished ==
    /\ fieldOut.impl = "none"
    /\ fieldOut' = FieldOutcome("Post.date_published", "first-published",
                       IF frontIn.none THEN Raised("TypeError")
                       ELSE Post_date_published(frontIn.d))
    /\ UNCHANGED <<frontIn, coreVars, cacheVars, urlVars, slugVars, tagVars>>

NextFront == GetTitle \/ GetDatePublished \/ PostTitle \/ PostDatePublished

SpecFront == InitFront /\ [][NextFront]_vars

\* The exceptions that are lookup errors (subclasses of LookupError).
LookupErrors == {"KeyError", "IndexError"}

\* C11 (as claimed): for a post whose front matter lacks the field read
\* ("title" or "first-published"), or that has no front matter at all, reading
\* the field raises a lookup error instead of returning a value, in the
\* pipeline's getters as in the Post properties.
C11_MissingFieldRaises ==
    (fieldOut.impl # "none" /\ (frontIn.none \/ ~fm_has(frontIn.d, fieldOut.field))) =>
        fieldOut.exc \in LookupErrors

\* ------------------------------------------------------------------ the read cache

MaxObjects == 3

\* maxsize of both functools.lru_cache decorators.
lru_maxsize == 512

\* The post files read.
CachePaths == {<<N_posts, N_a_md>>, <<N_posts, N_b_md>>}

\* The keys of an lru_cache after a call with this key, least recently used
\* first: a key already held moves to the end, a new key is added and the
\* least recently used key is dropped once more than maxsize keys are held.
lru_touch(cache, key) ==
    LET others == SelectSeq(cache, LAMBDA k : k # key)
        held == Append(others, key)
    IN  IF Len(held) > lru_maxsize THEN Tail(held) ELSE held

\* The call finds its key in the cache and does not run the function.
lru_hit(cache, key) == \E i \in 1..Len(cache) : cache[i] = key

InitCache ==
    /\ postObjs = <<>>
    /\ linesCache = <<>>
    /\ srcCache = <<>>
    /\ diskReads = [p \in CachePaths |-> [post |-> 0, source |-> 0]]
    /\ CoreIdle
    /\ FrontIdle
    /\ UrlIdle
    /\ SlugIdle
    /\ TagsIdle

\* Post(path): a new object; Post defines neither __eq__ nor __hash__, so the
\* object is equal only to itself.
NewPost(p) ==
    /\ Len(postObjs) < MaxObjects
    /\ postObjs' = Append(postObjs, p)
    /\ UNCHANGED <<linesCache, srcCache, diskReads>>
    /\ UNCHANGED <<coreVars, frontVars, urlVars, slugVars, tagVars>>

\* A derived field of Post object o is read (front_matter, title, tags,
\* date_published, text, excerpt, html): each reads self.lines, which calls
\* self._get_lines(); the cache of the method is keyed by its argument, self.
PostLines(o) ==
    /\ o \in 1..Len(postObjs)
    /\ linesCache' = lru_touch(linesCache, o)
    /\ diskReads' = IF lru_hit(linesCache, o) THEN diskReads
                    ELSE [diskReads EXCEPT ![postObjs[o]].post = @ + 1]
    /\ UNCHANGED <<postObjs, srcCache>>
    /\ UNCHANGED <<coreVars, frontVars, urlVars, slugVars, tagVars>>

\* A getter of __init__.py is called for path p: each calls
\* get_source_lines(source), whose cache is keyed by the path.
GetSourceLines(p) ==
    /\ srcCache' = lru_touch(srcCache, p)
    /\ diskReads' = IF lru_hit(srcCache, p) THEN diskReads
                    ELSE [diskReads EXCEPT ![p].source = @ + 1]
    /\ UNCHANGED <<postObjs, linesCache>>
    /\ UNCHANGED <<coreVars, frontVars, urlVars, slugVars, tagVars>>

NextCache ==
    \/ \E p \in CachePaths : NewPost(p)
    \/ \E o \in 1..MaxObjects : PostLines(o)
    \/ \E p \in CachePaths : GetSourceLines(p)

SpecCache == InitCache /\ [][NextCache]_vars

\* C12 (as claimed): within one run, whatever fields are read, of whatever
\* posts, through however many Post objects of one path, the content of each
\* source path is read from disk at most once by each implementation.
C12_ReadAtMostOnce ==
    \A p \in DOMAIN diskReads : diskReads[p].post <= 1 /\ diskReads[p].source <= 1

\* ------------------------------------------------------------------ relative URLs

\* text.split(sep) for a separator of one character.
RECURSIVE str_split(_, _)
str_split(text, sep) ==
    IF \A i \in 1..Len(text) : text[i] # sep THEN <<text>>
    ELSE LET i == CHOOSE k \in 1..Len(text) :
                      text[k] = sep /\ \A j \in 1..(k - 1) : text[j] # sep
         IN  <<SubSeq(text, 1, i - 1)>> \o str_split(SubSeq(text, i + 1, Len(text)), sep)

\* parts[:-1]
AllButLast(parts) == SubSeq(parts, 1, Len(parts) - 1)

\* get_url(source) of __init__.py
get_url(source) ==
    LET source_path_relative_to_source_dir == get_source_path_relative_to_source_dir(source)
        url_parts == AllButLast(str_split(PathStr(source_path_relative_to_source_dir), "/"))
        url == JoinParts(url_parts)
    IN  <<"/">> \o url \o <<"/">>

\* Post.relative_url of models.py
Post_relative_url(path) ==
    LET url_parts == AllButLast(str_split(PathStr(path_relative_to_source_dir(path)), "/"))
        url == JoinParts(url_parts)
    IN  <<"/">> \o url \o <<"/">>

\* The relative paths of the files a URL is computed for: up to one part
\* deeper than the paths of the destination runs, as posts/some-post/index.md.
UrlPaths == UNION {RelPathsOfLen(n) : n \in 1..(MaxDepth + 1)}

InitUrl ==
    /\ urlIn \in UrlPaths
    /\ urlOut = NoUrl
    /\ CoreIdle
    /\ FrontIdle
    /\ CacheIdle
    /\ SlugIdle
    /\ TagsIdle

\* get_url() and get_destination() of __init__.py for the file under SOURCE_DIR.
GetUrl ==
    /\ urlOut.impl = "none"
    /\ urlOut' = [impl |-> "get_url",
                  url |-> get_url(SOURCE_DIR \o urlIn),
                  d |-> get_destination(SOURCE_DIR \o urlIn),
                  root |-> DESTINATION_DIR]
    /\ UNCHANGED <<urlIn, coreVars, frontVars, cacheVars, slugVars, tagVars>>

\* Post(path).relative_url and .destination of models.py for the file under
\* config.SOURCE_DIR.
PostRelativeUrl ==
    /\ urlOut.impl = "none"
    /\ urlOut' = [impl |-> "Post.relative_url",
                  url |-> Post_relative_url(config_SOURCE_DIR \o urlIn),
                  d |-> Source_destination(config_SOURCE_DIR \o urlIn),
                  root |-> config_DESTINATION_DIR]
    /\ UNCHANGED <<urlIn, coreVars, frontVars, cacheVars, slugVars, tagVars>>

NextUrl == GetUrl \/ PostRelativeUrl

SpecUrl == InitUrl /\ [][NextUrl]_vars

\* The number of "/" a text starts with, and the number it ends with.
LeadingSlashes(text) ==
    Cardinality({k \in 1..Len(text) : \A j \in 1..k : text[j] = "/"})

TrailingSlashes(text) ==
    Cardinality({k \in 1..Len(text) : \A j \in k..Len(text) : text[j] = "/"})

\* The text without the "/" at its ends.
StripSlashes(text) ==
    IF LeadingSlashes(text) = Len(text) THEN <<>>
    ELSE SubSeq(text, LeadingSlashes(text) + 1, Len(text) - TrailingSlashes(text))

\* The directory of the destination, relative to the destination root.
DestinationDirectory == SubSeq(Parent(urlOut.d), Len(urlOut.root) + 1, Len(urlOut.d) - 1)

\* C13 (as claimed): for every Markdown file under the source root, one
\* directly in the root included, the relative URL is the path of the
\* destination's directory relative to the destination root, with exactly one
\* leading slash and exactly one trailing slash.
C13_UrlIsDestinationDirectory ==
    (urlOut.impl # "none" /\ PathMatchMd(urlIn)) =>
        /\ StripSlashes(urlOut.url) = JoinParts(DestinationDirectory)
        /\ LeadingSlashes(urlOut.url) = 1
        /\ TrailingSlashes(urlOut.url) = 1

\* ------------------------------------------------------------------ tag slugs

MaxTagLen == 2

\* The characters tags are written with: a letter in both cases, another
\* letter, the space and the hyphen.
TagChars == {"A", "a", "b", " ", "-"}

RECURSIVE TagsOfLen(_)
TagsOfLen(n) ==
    IF n = 0 THEN {<<>>}
    ELSE {Append(t, c) : t \in TagsOfLen(n - 1), c \in TagChars}

\* The tags of 0..MaxTagLen characters.
Tags == UNION {TagsOfLen(n) : n \in 0..MaxTagLen}

\* Post.tags, given the dictionary of the post.
Post_tags(front_matter) ==
    IF fm_has(front_matter, "tags")
    THEN [i \in 1..Len(front_matter.tags) |-> slug(front_matter.tags[i])]
    ELSE <<>>

InitSlug ==
    /\ slugIn \in Tags \X Tags
    /\ slugOut = NotEvaluated
    /\ CoreIdle
    /\ FrontIdle
    /\ CacheIdle
    /\ UrlIdle
    /\ TagsIdle

TagsDict(tags) == [keys |-> {"tags"}, tags |-> tags]

\* Post.tags of a post whose "tags" are the two tags given.
PostTags ==
    /\ ~slugOut.done
    /\ slugOut' = Evaluated(<<Post_tags(TagsDict(slugIn))>>)
    /\ UNCHANGED <<slugIn, coreVars, frontVars, cacheVars, urlVars, tagVars>>

\* Post.tags of a post whose "tags" are the slugs computed before.
PostTagsOfSlugs ==
    /\ slugOut.done
    /\ Len(slugOut.v) = 1
    /\ slugOut' = Evaluated(<<slugOut.v[1], Post_tags(TagsDict(slugOut.v[1]))>>)
    /\ UNCHANGED <<slugIn, coreVars, frontVars, cacheVars, urlVars, tagVars>>

NextSlug == PostTags \/ PostTagsOfSlugs

SpecSlug == InitSlug /\ [][NextSlug]_vars

UpperCaseLetters ==
    {"A", "B", "C", "D", "E", "F", "G", "H", "I", "J", "K", "L", "M",
     "N", "O", "P", "Q", "R", "S", "T", "U", "V", "W", "X", "Y", "Z"}

\* The two forms of the letter that TagChars has in both cases.
CasePairs == {{"A", "a"}}

\* Two tags that differ in the case of letters only.
DifferOnlyInCase(t1, t2) ==
    /\ Len(t1) = Len(t2)
    /\ \A k \in 1..Len(t1) : t1[k] = t2[k] \/ {t1[k], t2[k]} \in CasePairs

\* C15: the slug of a slug is that slug; two tags that differ only in letter
\* case have the same slug; a slug holds no upper-case letter and no space.
C15_SlugLaws ==
    slugOut.done =>
        LET slugs == slugOut.v[1]
        IN  /\ Len(slugOut.v) = 2 => slugOut.v[2] = slugs
            /\ DifferOnlyInCase(slugIn[1], slugIn[2]) => slugs[1] = slugs[2]
            /\ \A i \in 1..Len(slugs) : \A k \in 1..Len(slugs[i]) :
                   slugs[i][k] \notin UpperCaseLetters \cup {" "}

\* "A " and "a " were slugged to "a-" both, and the slugs slugged again.
C15_Witness ==
    /\ slugIn = << <<"A", " ">>, <<"a", " ">> >>
    /\ slugOut.done
    /\ Len(slugOut.v) = 2
    /\ slugOut.v[1] = << <<"a", "-">>, <<"a", "-">> >>
    /\ slugOut.v[2] = slugOut.v[1]

\* ------------------------------------------------------------------ posts by tag

MaxTags == 2

MaxTagPosts == 2

\* The tags posts are given: two that differ in case only, and a third.
PostTagNames == {<<"A", " ", "b">>, <<"a", " ", "b">>, <<"c">>}

RECURSIVE TagListsOfLen(_)
TagListsOfLen(n) ==
    IF n = 0 THEN {<<>>}
    ELSE {Append(l, t) : l \in TagListsOfLen(n - 1), t \in PostTagNames}

\* The dictionaries of the posts: without "tags", or with a list of
\* 0..MaxTags tags.
TagDicts ==
    {[keys |-> {}, tags |-> <<>>]}
    \cup {[keys |-> {"tags"}, tags |-> l] :
              l \in UNION {TagListsOfLen(n) : n \in 0..MaxTags}}

RECURSIVE TagPostsOfLen(_)
TagPostsOfLen(n) ==
    IF n = 0 THEN {<<>>}
    ELSE {Append(ps, d) : ps \in TagPostsOfLen(n - 1), d \in TagDicts}

InitTags ==
    /\ tagPosts \in UNION {TagPostsOfLen(n) : n \in 0..MaxTagPosts}
    /\ tagsOut = NotEvaluated
    /\ CoreIdle
    /\ FrontIdle
    /\ CacheIdle
    /\ UrlIdle
    /\ SlugIdle

\* get_posts_by_tag() over the posts 1..n, globbed in this order.
GetPostsByTag ==
    /\ ~tagsOut.done
    /\ tagsOut' = Evaluated(get_posts_by_tag([i \in 1..Len(tagPosts) |-> i], tagPosts))
    /\ UNCHANGED <<tagPosts, coreVars, frontVars, cacheVars, urlVars, slugVars>>

NextTags == GetPostsByTag

SpecTags == InitTags /\ [][NextTags]_vars

\* The slugged tags post i carries.
Carries(i) == {get_tags(tagPosts[i])[k] : k \in 1..Len(get_tags(tagPosts[i]))}

\* The number of times post i is in the list.
Occurrences(list, i) == Cardinality({k \in 1..Len(list) : list[k] = i})

\* C16 (as claimed): the keys of the mapping get_posts_by_tag returns are the
\* slugged tags of all posts; the list under a tag holds every post that
\* carries the tag exactly once, also a post with two tags of one slug, and
\* no other post; a post without tags is in no list.
C16_PostsByTag ==
    tagsOut.done =>
        /\ DOMAIN tagsOut.v = UNION {Carries(i) : i \in 1..Len(tagPosts)}
        /\ \A t \in DOMAIN tagsOut.v : \A i \in 1..Len(tagPosts) :
               Occurrences(tagsOut.v[t], i) = IF t \in Carries(i) THEN 1 ELSE 0
        /\ \A t \in DOMAIN tagsOut.v : Len(tagsOut.v[t]) =
               Cardinality({i \in 1..Len(tagPosts) : t \in Carries(i)})

====
